---- MODULE Spec2Model ----
(***************************************************************************)
(* Menu-driven client of a Redis set store (Week_PA2_sol.py).              *)
(*                                                                         *)
(* The program is one sequential process.  Every input() call is one step  *)
(* of the model: the step reads a typed line and runs the code up to the   *)
(* next input() call, store calls included.  Strings are sequences of      *)
(* one-character strings, bytes are sequences of byte values.              *)
(***************************************************************************)
EXTENDS Integers, Sequences, FiniteSets, TLC

VARIABLES
    pc,       \* the input() call the process is blocked on
    store,    \* the Redis database: key -> set of members (bytes)
    key,      \* local `key` of the running operation
    count,    \* local `count` of create_new_set
    members,  \* local `members` of create_new_set (list of str)
    line,     \* the line last typed by the operator
    got,      \* the value get_int last returned, with the bounds it was given
    calls,    \* the store calls issued by the last step, in order
    checked,  \* the key an exists() call of this operation found present
    out,      \* what the running (or last) operation last printed
    prev      \* while a query runs or has just run: what the operation before it printed

vars == <<pc, store, key, count, members, line, got, calls, checked, out, prev>>

-----------------------------------------------------------------------------
(* Bounds of the model *)

\* largest member count the operator types in create_new_set
MaxCount == 3

(* Program constants *)
MainMenuMin == 1
MainMenuMax == 6
UpdateMenuMin == 1
UpdateMenuMax == 4
CountMin == 1

-----------------------------------------------------------------------------
(* Typed lines *)

Digits == <<"0", "1", "2", "3", "4", "5", "6", "7", "8", "9">>

\* the decimal numeral of a one-digit natural
Numeral(n) == <<Digits[n + 1]>>

KeyLines == { <<>>, <<" ">>, <<"k">>, <<" ", "k", " ">>, <<"j">> }

MemberLines == { <<>>, <<" ">>, <<"a">>, <<"a", " ">>, <<"b">> }

BadIntLines == { <<>>, <<"x">>, <<"-", "1">> }

SelLines == { Numeral(n) : n \in 0..7 } \cup { <<" ", "2", " ">>, <<"0", "4">> }
               \cup BadIntLines

CountLines == { Numeral(n) : n \in 0..MaxCount } \cup { <<" ", "2", " ">> } \cup BadIntLines

ConfirmLines == { <<>>, <<"y">>, <<"n">>, <<"Y">>, <<" ", "y", " ">>, <<"y", "e", "s">> }

-----------------------------------------------------------------------------
(* str methods *)

IsSpace(c) == c = " "

RECURSIVE LStrip(_)
LStrip(s) == IF s # <<>> /\ IsSpace(Head(s)) THEN LStrip(Tail(s)) ELSE s

RECURSIVE RStrip(_)
RStrip(s) ==
    IF s # <<>> /\ IsSpace(s[Len(s)]) THEN RStrip(SubSeq(s, 1, Len(s) - 1)) ELSE s

\* str.strip()
Strip(s) == RStrip(LStrip(s))

LowerChar(c) == IF c = "Y" THEN "y" ELSE IF c = "N" THEN "n" ELSE c

\* str.lower()
Lower(s) == [i \in 1..Len(s) |-> LowerChar(s[i])]

DigitValue(c) == (CHOOSE i \in 1..10 : Digits[i] = c) - 1

IsDigit(c) == \E i \in 1..10 : Digits[i] = c

RECURSIVE DigitsValue(_, _)
DigitsValue(s, acc) ==
    IF s = <<>> THEN acc ELSE DigitsValue(Tail(s), 10 * acc + DigitValue(Head(s)))

\* int(str): an optional sign and one or more digits, ValueError otherwise
ParseInt(s) ==
    LET body == IF s # <<>> /\ Head(s) \in {"-", "+"} THEN Tail(s) ELSE s
        neg  == s # <<>> /\ Head(s) = "-"
    IN  IF body # <<>> /\ \A i \in 1..Len(body) : IsDigit(body[i])
        THEN [ok |-> TRUE, value |-> IF neg THEN 0 - DigitsValue(body, 0) ELSE DigitsValue(body, 0)]
        ELSE [ok |-> FALSE, value |-> 0]

\* min_value / max_value left at their default, None
NoBound == -1000000

\* get_int without the max_value test
get_int_nomax(typed, min_value, max_value) ==
    LET p == ParseInt(Strip(typed))
    IN  IF ~p.ok THEN [ok |-> FALSE, value |-> 0]
        ELSE IF min_value # NoBound /\ p.value < min_value THEN [ok |-> FALSE, value |-> p.value]
        ELSE [ok |-> TRUE, value |-> p.value]

\* get_int with the min_value test off by one (value < min_value - 1)
get_int_lowmin(typed, min_value, max_value) ==
    LET p == ParseInt(Strip(typed))
    IN  IF ~p.ok THEN [ok |-> FALSE, value |-> 0]
        ELSE IF min_value # NoBound /\ p.value < min_value - 1 THEN [ok |-> FALSE, value |-> p.value]
        ELSE IF max_value # NoBound /\ p.value > max_value THEN [ok |-> FALSE, value |-> p.value]
        ELSE [ok |-> TRUE, value |-> p.value]

\* one iteration of get_int's loop on a typed line: ok means the value is
\* returned, otherwise a message is printed and the loop reads again
get_int(typed, min_value, max_value) ==
    LET p == ParseInt(Strip(typed))
    IN  IF ~p.ok THEN [ok |-> FALSE, value |-> 0]
        ELSE IF min_value # NoBound /\ p.value < min_value THEN [ok |-> FALSE, value |-> p.value]
        ELSE IF max_value # NoBound /\ p.value > max_value THEN [ok |-> FALSE, value |-> p.value]
        ELSE [ok |-> TRUE, value |-> p.value]

-----------------------------------------------------------------------------
(* bytes <-> str *)

AlphaSeq == <<" ", "a", "b", "c">>
CodeSeq  == <<32, 97, 98, 99>>

Ord(c) == CodeSeq[CHOOSE i \in 1..Len(AlphaSeq) : AlphaSeq[i] = c]
Chr(b) == AlphaSeq[CHOOSE i \in 1..Len(CodeSeq) : CodeSeq[i] = b]

\* redis-py encodes a str argument as UTF-8
EncodeStr(s) == [i \in 1..Len(s) |-> Ord(s[i])]

\* m.decode("utf-8")
Decode(b) == [i \in 1..Len(b) |-> Chr(b[i])]

\* format_members with str(m) applied to the bytes: "b'a'" for b"a"
format_members_repr(ms) == { <<"b", "'">> \o Decode(m) \o <<"'">> : m \in ms }

\* format_members: the members as str (the list's order is the set's)
format_members(ms) == { Decode(m) : m \in ms }

-----------------------------------------------------------------------------
(* The Redis server, as the redis-py calls of the program see it.  A set   *)
(* that loses its last member is removed: a key exists iff it has members. *)

Keys == { Strip(l) : l \in KeyLines } \ { <<>> }

Members == { Strip(l) : l \in MemberLines } \ { <<>> }

Bytes == { EncodeStr(m) : m \in Members }

EmptyStore == [k \in Keys |-> {}]

\* the member set held under a key; a key that does not exist holds none
Get(st, k) == IF k \in DOMAIN st THEN st[k] ELSE {}

Put(st, k, set) == [x \in DOMAIN st \cup {k} |-> IF x = k THEN set ELSE st[x]]

\* r.exists(key): the number of the named keys that exist
exists(st, k) == IF Get(st, k) # {} THEN 1 ELSE 0

RECURSIVE SAddFold(_, _, _)
SAddFold(set, args, n) ==
    IF args = <<>> THEN [set |-> set, ret |-> n]
    ELSE IF Head(args) \in set THEN SAddFold(set, Tail(args), n)
    ELSE SAddFold(set \cup {Head(args)}, Tail(args), n + 1)

\* r.sadd(key, *args): adds each argument in turn, returns how many were new
sadd(st, k, args) ==
    LET r == SAddFold(Get(st, k), args, 0)
    IN  [store |-> Put(st, k, r.set), ret |-> r.ret]

\* r.srem(key, m): returns 1 if m was a member
srem(st, k, m) ==
    [store |-> Put(st, k, Get(st, k) \ {m}), ret |-> IF m \in Get(st, k) THEN 1 ELSE 0]

\* r.smembers(key)
smembers(st, k) == Get(st, k)

\* r.scard(key)
scard(st, k) == Cardinality(Get(st, k))

\* r.delete(key): returns the number of keys removed
delete(st, k) ==
    [store |-> Put(st, k, {}), ret |-> IF Get(st, k) # {} THEN 1 ELSE 0]

\* r.flushdb()
flushdb(st) == [k \in DOMAIN st |-> {}]

-----------------------------------------------------------------------------
(* Bookkeeping of the store calls and of the printed reports *)

NoKey == <<>>

\* one store call: the function, its key and member arguments as sent, whether
\* an exists() of this operation had found the key, whether the key exists now
Call(fn, k, args, chk, st) ==
    [fn |-> fn, key |-> k, args |-> args,
     confirmed |-> (chk = k), live |-> (Get(st, k) # {})]

\* a call without a key (ping, flushdb)
PlainCall(fn) == [fn |-> fn, key |-> NoKey, args |-> <<>>, confirmed |-> FALSE, live |-> FALSE]

\* what an operation printed: the message, and the values it reported
Report(op, k, msg) ==
    [op |-> op, key |-> k, msg |-> msg, listed |-> {}, entered |-> <<>>,
     old |-> {}, added |-> -1, card |-> -1]

NoReport == Report("none", NoKey, "")

NoInt == [value |-> 0, min |-> NoBound, max |-> NoBound]

Init ==
    /\ pc = "connect"
    /\ store = EmptyStore
    /\ key = NoKey
    /\ count = 0
    /\ members = <<>>
    /\ line = <<>>
    /\ got = NoInt
    /\ calls = <<>>
    /\ checked = NoKey
    /\ out = NoReport
    /\ prev = NoReport

\* the function returns to the main loop: its locals are gone
Return ==
    /\ pc' = "menu"
    /\ key' = NoKey
    /\ count' = 0
    /\ members' = <<>>

-----------------------------------------------------------------------------
(* connect_to_redis: the ping either answers or raises ConnectionError,    *)
(* which is re-raised and ends the process                                 *)

\* connect_to_redis with the ConnectionError swallowed (no `raise`)
connect_to_redis_swallow ==
    /\ pc = "connect"
    /\ \E ok \in BOOLEAN :
         /\ pc' = "menu"
         /\ out' = Report("connect", NoKey, IF ok THEN "connected" ELSE "ping failed")
    /\ calls' = <<PlainCall("ping")>>
    /\ UNCHANGED <<store, key, count, members, line, got, checked, prev>>

connect_to_redis ==
    /\ pc = "connect"
    /\ \E ok \in BOOLEAN :
         /\ pc' = IF ok THEN "menu" ELSE "failed"
         /\ out' = Report("connect", NoKey, IF ok THEN "connected" ELSE "ping failed")
    /\ calls' = <<PlainCall("ping")>>
    /\ UNCHANGED <<store, key, count, members, line, got, checked, prev>>

-----------------------------------------------------------------------------
(* main: one pass of the menu loop, up to the first input() of the         *)
(* function the selection is routed to                                     *)

Route(selection) ==
    CASE selection = 1 -> [pc |-> "query_key", op |-> "query"]
      [] selection = 2 -> [pc |-> "create_key", op |-> "create"]
      [] selection = 3 -> [pc |-> "update_key", op |-> "update"]
      [] selection = 4 -> [pc |-> "delete_key", op |-> "delete"]
      [] selection = 5 -> [pc |-> "flush_confirm", op |-> "flush"]
      [] selection = 6 -> [pc |-> "done", op |-> "exit"]
      [] OTHER -> [pc |-> "menu", op |-> "none"]

main ==
    /\ pc = "menu"
    /\ \E typed \in SelLines :
         LET r == get_int(typed, MainMenuMin, MainMenuMax)
         IN  /\ line' = typed
             /\ calls' = <<>>
             /\ IF ~r.ok
                 THEN UNCHANGED <<pc, store, key, count, members, got, checked, out, prev>>
                 ELSE /\ got' = [value |-> r.value, min |-> MainMenuMin, max |-> MainMenuMax]
                      /\ pc' = Route(r.value).pc
                      /\ prev' = IF Route(r.value).op = "query" THEN out ELSE NoReport
                      /\ out' = Report(Route(r.value).op, NoKey, "")
                      /\ checked' = NoKey
                      /\ UNCHANGED <<store, key, count, members>>

-----------------------------------------------------------------------------
(* retrieve_set_members *)

\* lines 93-102 with the members fetched a second time for the listing
retrieve_print_refetch(st, k, chk) ==
    LET members_list == format_members(smembers(st, k))
    IN  [calls |-> << Call("smembers", k, <<>>, chk, st), Call("smembers", k, <<>>, chk, st),
                      Call("scard", k, <<>>, chk, st) >>,
         out |-> [Report("query", k,
                         IF Cardinality(members_list) = 0 THEN "no members" ELSE "members")
                    EXCEPT !.listed = members_list, !.card = scard(st, k)],
         checked |-> chk]

\* lines 93-102
retrieve_print(st, k, chk) ==
    LET members_list == format_members(smembers(st, k))
    IN  [calls |-> << Call("smembers", k, <<>>, chk, st), Call("scard", k, <<>>, chk, st) >>,
         out |-> [Report("query", k,
                         IF Cardinality(members_list) = 0 THEN "no members" ELSE "members")
                    EXCEPT !.listed = members_list, !.card = scard(st, k)],
         checked |-> chk]

\* retrieve_set_members without the exists() test of lines 89-91
retrieve_body_unchecked(st, k, chk) ==
    IF k = <<>>
    THEN [calls |-> <<>>, out |-> Report("query", k, "key empty"), checked |-> chk]
    ELSE retrieve_print(st, k, chk)

\* lines 85-102
retrieve_body(st, k, chk) ==
    IF k = <<>>
    THEN [calls |-> <<>>, out |-> Report("query", k, "key empty"), checked |-> chk]
    ELSE IF exists(st, k) = 0
    THEN [calls |-> <<Call("exists", k, <<>>, chk, st)>>,
          out |-> Report("query", k, "absent"), checked |-> chk]
    ELSE LET r == retrieve_print(st, k, k)
         IN  [r EXCEPT !.calls = <<Call("exists", k, <<>>, chk, st)>> \o r.calls]

retrieve_set_members ==
    /\ pc = "query_key"
    /\ \E typed \in KeyLines :
         LET r == retrieve_body(store, Strip(typed), checked)
         IN  /\ line' = typed
             /\ calls' = r.calls
             /\ out' = r.out
             /\ checked' = r.checked
    /\ Return
    /\ UNCHANGED <<store, got, prev>>

-----------------------------------------------------------------------------
(* create_new_set: the key, the count, then one step per member; the step  *)
(* that reads the last member issues the sadd and the scard                *)

create_new_set_key ==
    /\ pc = "create_key"
    /\ \E typed \in KeyLines :
         /\ line' = typed
         /\ IF Strip(typed) = <<>>
            THEN /\ out' = Report("create", Strip(typed), "key empty")
                 /\ Return
            ELSE /\ key' = Strip(typed)
                 /\ pc' = "create_count"
                 /\ UNCHANGED <<out, count, members>>
    /\ calls' = <<>>
    /\ UNCHANGED <<store, got, checked, prev>>

create_new_set_count ==
    /\ pc = "create_count"
    /\ \E typed \in CountLines :
         LET r == get_int(typed, CountMin, NoBound)
         IN  /\ line' = typed
             /\ IF ~r.ok
                 THEN UNCHANGED <<pc, count, got>>
                 ELSE /\ got' = [value |-> r.value, min |-> CountMin, max |-> NoBound]
                      /\ count' = r.value
                      /\ pc' = "create_member"
    /\ calls' = <<>>
    /\ UNCHANGED <<store, key, members, checked, out, prev>>

\* lines 76-79 with the number of entered members reported as added
create_body_len(st, k, ms, chk) ==
    LET args  == [i \in 1..Len(ms) |-> EncodeStr(ms[i])]
        added == sadd(st, k, args)
    IN  [store |-> added.store,
         calls |-> << Call("sadd", k, args, chk, st),
                      Call("scard", k, <<>>, chk, added.store) >>,
         out |-> [Report("create", k, "updated")
                    EXCEPT !.entered = ms, !.old = Get(st, k),
                           !.added = Len(ms), !.card = scard(added.store, k)]]

\* lines 76-79, once the list is complete
create_body(st, k, ms, chk) ==
    LET args  == [i \in 1..Len(ms) |-> EncodeStr(ms[i])]
        added == sadd(st, k, args)
    IN  [store |-> added.store,
         calls |-> << Call("sadd", k, args, chk, st),
                      Call("scard", k, <<>>, chk, added.store) >>,
         out |-> [Report("create", k, "updated")
                    EXCEPT !.entered = ms, !.old = Get(st, k),
                           !.added = added.ret, !.card = scard(added.store, k)]]

\* create_new_set adding what was collected so far when a member is empty
create_new_set_member_partial ==
    /\ pc = "create_member"
    /\ \E typed \in MemberLines :
         LET member == Strip(typed)
             ms     == IF member = <<>> THEN members ELSE Append(members, member)
             r      == create_body(store, key, ms, checked)
         IN  /\ line' = typed
             /\ IF member # <<>> /\ Len(ms) < count
                 THEN /\ members' = ms
                      /\ calls' = <<>>
                      /\ UNCHANGED <<pc, key, count, store, out>>
                 ELSE IF ms = <<>>
                 THEN /\ out' = Report("create", key, "member empty")
                      /\ calls' = <<>>
                      /\ Return
                      /\ UNCHANGED store
                 ELSE /\ store' = r.store
                      /\ calls' = r.calls
                      /\ out' = [r.out EXCEPT !.msg = IF member = <<>> THEN "member empty" ELSE @]
                      /\ Return
    /\ UNCHANGED <<got, checked, prev>>

create_new_set_member ==
    /\ pc = "create_member"
    /\ \E typed \in MemberLines :
         LET member == Strip(typed)
             ms     == Append(members, member)
             r      == create_body(store, key, ms, checked)
         IN  /\ line' = typed
             /\ IF member = <<>>
                 THEN /\ out' = [Report("create", key, "member empty") EXCEPT !.entered = members]
                      /\ calls' = <<>>
                      /\ Return
                      /\ UNCHANGED store
                 ELSE IF Len(ms) < count
                 THEN /\ members' = ms
                      /\ calls' = <<>>
                      /\ UNCHANGED <<pc, key, count, store, out>>
                 ELSE /\ store' = r.store
                      /\ calls' = r.calls
                      /\ out' = r.out
                      /\ Return
    /\ UNCHANGED <<got, checked, prev>>

-----------------------------------------------------------------------------
(* update_set_members: the key, then the sub-menu loop; a sub-menu step    *)
(* runs up to the next input(), so "Remove all members" is part of the     *)
(* step that reads the selection 3                                         *)

\* lines 108-114 without the return of line 114
update_key_body_noreturn(st, k, chk) ==
    IF k = <<>>
    THEN [calls |-> <<>>, out |-> Report("update", k, "key empty"), checked |-> chk, enter |-> FALSE]
    ELSE IF exists(st, k) = 0
    THEN [calls |-> <<Call("exists", k, <<>>, chk, st)>>,
          out |-> Report("update", k, "absent"), checked |-> chk, enter |-> TRUE]
    ELSE [calls |-> <<Call("exists", k, <<>>, chk, st)>>,
          out |-> Report("update", k, "menu"), checked |-> k, enter |-> TRUE]

\* lines 108-114
update_key_body(st, k, chk) ==
    IF k = <<>>
    THEN [calls |-> <<>>, out |-> Report("update", k, "key empty"), checked |-> chk, enter |-> FALSE]
    ELSE IF exists(st, k) = 0
    THEN [calls |-> <<Call("exists", k, <<>>, chk, st)>>,
          out |-> Report("update", k, "absent"), checked |-> chk, enter |-> FALSE]
    ELSE [calls |-> <<Call("exists", k, <<>>, chk, st)>>,
          out |-> Report("update", k, "menu"), checked |-> k, enter |-> TRUE]

update_set_members_key ==
    /\ pc = "update_key"
    /\ \E typed \in KeyLines :
         LET r == update_key_body(store, Strip(typed), checked)
         IN  /\ line' = typed
             /\ calls' = r.calls
             /\ out' = r.out
             /\ checked' = r.checked
             /\ IF r.enter
                 THEN /\ key' = Strip(typed)
                      /\ pc' = "update_menu"
                      /\ UNCHANGED <<count, members>>
                 ELSE Return
    /\ UNCHANGED <<store, got, prev>>

\* the orders in which a for loop may visit the members of a set
Orders(set) ==
    { f \in [1..Cardinality(set) -> set] : \A i, j \in DOMAIN f : f[i] = f[j] => i = j }

RECURSIVE RemoveEach(_, _, _, _, _)
RemoveEach(st, k, order, chk, acc) ==
    IF order = <<>> THEN [store |-> st, calls |-> acc]
    ELSE RemoveEach(srem(st, k, Head(order)).store, k, Tail(order), chk,
                    Append(acc, Call("srem", k, <<Head(order)>>, chk, st)))

\* lines 150-159 with the set removed by one r.delete(key)
remove_all_body_bulk(st, k, chk, order) ==
    LET snapshot == smembers(st, k)
        r == IF snapshot = {} THEN [store |-> st, calls |-> <<>>]
             ELSE [store |-> delete(st, k).store, calls |-> <<Call("delete", k, <<>>, chk, st)>>]
    IN  [store |-> r.store,
         calls |-> <<Call("smembers", k, <<>>, chk, st)>> \o r.calls
                      \o <<Call("scard", k, <<>>, chk, r.store)>>,
         out |-> [Report("removeall", k, IF snapshot = {} THEN "nothing to remove" ELSE "removed all")
                    EXCEPT !.old = snapshot, !.card = scard(r.store, k)]]

\* lines 150-159 with the whole database flushed
remove_all_body_flush(st, k, chk, order) ==
    LET snapshot == smembers(st, k)
        r == IF snapshot = {} THEN [store |-> st, calls |-> <<>>]
             ELSE [store |-> flushdb(st), calls |-> <<PlainCall("flushdb")>>]
    IN  [store |-> r.store,
         calls |-> <<Call("smembers", k, <<>>, chk, st)>> \o r.calls
                      \o <<Call("scard", k, <<>>, chk, r.store)>>,
         out |-> [Report("removeall", k, IF snapshot = {} THEN "nothing to remove" ELSE "removed all")
                    EXCEPT !.old = snapshot, !.card = scard(r.store, k)]]

\* lines 150-159; order is the iteration order of the set smembers returned
remove_all_body(st, k, chk, order) ==
    LET snapshot == smembers(st, k)
        r == IF snapshot = {} THEN [store |-> st, calls |-> <<>>]
             ELSE RemoveEach(st, k, order, chk, <<>>)
    IN  [store |-> r.store,
         calls |-> <<Call("smembers", k, <<>>, chk, st)>> \o r.calls
                      \o <<Call("scard", k, <<>>, chk, r.store)>>,
         out |-> [Report("removeall", k, IF snapshot = {} THEN "nothing to remove" ELSE "removed all")
                    EXCEPT !.old = snapshot, !.card = scard(r.store, k)]]

update_set_members_menu ==
    /\ pc = "update_menu"
    /\ \E typed \in SelLines :
         LET r == get_int(typed, UpdateMenuMin, UpdateMenuMax)
         IN  /\ line' = typed
             /\ IF ~r.ok
                 THEN /\ calls' = <<>>
                      /\ UNCHANGED <<pc, store, key, count, members, got, out>>
                 ELSE /\ got' = [value |-> r.value, min |-> UpdateMenuMin, max |-> UpdateMenuMax]
                      /\ IF r.value = 1
                         THEN /\ pc' = "update_add"
                              /\ calls' = <<>>
                              /\ UNCHANGED <<store, key, count, members, out>>
                         ELSE IF r.value = 2
                         THEN /\ pc' = "update_remove"
                              /\ calls' = <<>>
                              /\ UNCHANGED <<store, key, count, members, out>>
                         ELSE IF r.value = 3
                         THEN \E order \in Orders(smembers(store, key)) :
                                LET a == remove_all_body(store, key, checked, order)
                                IN  /\ store' = a.store
                                    /\ calls' = a.calls
                                    /\ out' = a.out
                                    /\ UNCHANGED <<pc, key, count, members>>
                         ELSE IF r.value = 4
                         THEN /\ calls' = <<>>
                              /\ Return
                              /\ UNCHANGED <<store, out>>
                         ELSE /\ calls' = <<>>
                              /\ UNCHANGED <<pc, store, key, count, members, out>>
    /\ UNCHANGED <<checked, prev>>

\* lines 127-135 with the test of `added` inverted
add_body_inverted(st, k, member, chk) ==
    IF member = <<>>
    THEN [store |-> st, calls |-> <<>>, out |-> Report("add", k, "member empty")]
    ELSE LET added == sadd(st, k, <<EncodeStr(member)>>)
         IN  [store |-> added.store,
              calls |-> << Call("sadd", k, <<EncodeStr(member)>>, chk, st),
                           Call("scard", k, <<>>, chk, added.store) >>,
              out |-> [Report("add", k, IF added.ret = 0 THEN "added" ELSE "already existed")
                         EXCEPT !.entered = <<member>>, !.old = Get(st, k),
                                !.added = added.ret, !.card = scard(added.store, k)]]

\* lines 127-135
add_body(st, k, member, chk) ==
    IF member = <<>>
    THEN [store |-> st, calls |-> <<>>, out |-> Report("add", k, "member empty")]
    ELSE LET added == sadd(st, k, <<EncodeStr(member)>>)
         IN  [store |-> added.store,
              calls |-> << Call("sadd", k, <<EncodeStr(member)>>, chk, st),
                           Call("scard", k, <<>>, chk, added.store) >>,
              out |-> [Report("add", k, IF added.ret = 1 THEN "added" ELSE "already existed")
                         EXCEPT !.entered = <<member>>, !.old = Get(st, k),
                                !.added = added.ret, !.card = scard(added.store, k)]]

update_set_members_add ==
    /\ pc = "update_add"
    /\ \E typed \in MemberLines :
         LET r == add_body(store, key, Strip(typed), checked)
         IN  /\ line' = typed
             /\ store' = r.store
             /\ calls' = r.calls
             /\ out' = r.out
    /\ pc' = "update_menu"
    /\ UNCHANGED <<key, count, members, got, checked, prev>>

\* lines 139-147 with the cardinality read before the srem
remove_body_stale(st, k, member, chk) ==
    IF member = <<>>
    THEN [store |-> st, calls |-> <<>>, out |-> Report("remove", k, "member empty")]
    ELSE LET removed == srem(st, k, EncodeStr(member))
         IN  [store |-> removed.store,
              calls |-> << Call("scard", k, <<>>, chk, st),
                           Call("srem", k, <<EncodeStr(member)>>, chk, st) >>,
              out |-> [Report("remove", k, IF removed.ret = 1 THEN "removed" ELSE "not found")
                         EXCEPT !.entered = <<member>>, !.old = Get(st, k),
                                !.added = removed.ret, !.card = scard(st, k)]]

\* lines 139-147
remove_body(st, k, member, chk) ==
    IF member = <<>>
    THEN [store |-> st, calls |-> <<>>, out |-> Report("remove", k, "member empty")]
    ELSE LET removed == srem(st, k, EncodeStr(member))
         IN  [store |-> removed.store,
              calls |-> << Call("srem", k, <<EncodeStr(member)>>, chk, st),
                           Call("scard", k, <<>>, chk, removed.store) >>,
              out |-> [Report("remove", k, IF removed.ret = 1 THEN "removed" ELSE "not found")
                         EXCEPT !.entered = <<member>>, !.old = Get(st, k),
                                !.added = removed.ret, !.card = scard(removed.store, k)]]

update_set_members_remove ==
    /\ pc = "update_remove"
    /\ \E typed \in MemberLines :
         LET r == remove_body(store, key, Strip(typed), checked)
         IN  /\ line' = typed
             /\ store' = r.store
             /\ calls' = r.calls
             /\ out' = r.out
    /\ pc' = "update_menu"
    /\ UNCHANGED <<key, count, members, got, checked, prev>>

-----------------------------------------------------------------------------
(* delete_set *)

\* delete_set without the empty-key test of lines 169-171
delete_body_anykey(st, k, chk) ==
    LET deleted == delete(st, k)
    IN  [store |-> deleted.store,
         calls |-> <<Call("delete", k, <<>>, chk, st)>>,
         out |-> [Report("delete", k, IF deleted.ret = 1 THEN "deleted" ELSE "not found")
                    EXCEPT !.old = Get(st, k)]]

\* lines 169-177 with the test of `deleted` inverted
delete_body_inverted(st, k, chk) ==
    IF k = <<>>
    THEN [store |-> st, calls |-> <<>>, out |-> Report("delete", k, "key empty")]
    ELSE LET deleted == delete(st, k)
         IN  [store |-> deleted.store,
              calls |-> <<Call("delete", k, <<>>, chk, st)>>,
              out |-> [Report("delete", k, IF deleted.ret = 0 THEN "deleted" ELSE "not found")
                         EXCEPT !.old = Get(st, k)]]

\* lines 169-177
delete_body(st, k, chk) ==
    IF k = <<>>
    THEN [store |-> st, calls |-> <<>>, out |-> Report("delete", k, "key empty")]
    ELSE LET deleted == delete(st, k)
         IN  [store |-> deleted.store,
              calls |-> <<Call("delete", k, <<>>, chk, st)>>,
              out |-> [Report("delete", k, IF deleted.ret = 1 THEN "deleted" ELSE "not found")
                         EXCEPT !.old = Get(st, k)]]

delete_set ==
    /\ pc = "delete_key"
    /\ \E typed \in KeyLines :
         LET r == delete_body(store, Strip(typed), checked)
         IN  /\ line' = typed
             /\ store' = r.store
             /\ calls' = r.calls
             /\ out' = r.out
    /\ Return
    /\ UNCHANGED <<got, checked, prev>>

-----------------------------------------------------------------------------
(* delete_all_data *)

\* delete_all_data without .lower()
delete_all_body_case(st, typed) ==
    LET confirm == Strip(typed)
    IN  IF confirm = <<"y">>
        THEN [store |-> flushdb(st), calls |-> <<PlainCall("flushdb")>>,
              out |-> Report("flush", NoKey, "flushed")]
        ELSE [store |-> st, calls |-> <<>>, out |-> Report("flush", NoKey, "canceled")]

\* lines 182-187
delete_all_body(st, typed) ==
    LET confirm == Lower(Strip(typed))
    IN  IF confirm = <<"y">>
        THEN [store |-> flushdb(st), calls |-> <<PlainCall("flushdb")>>,
              out |-> Report("flush", NoKey, "flushed")]
        ELSE [store |-> st, calls |-> <<>>, out |-> Report("flush", NoKey, "canceled")]

delete_all_data ==
    /\ pc = "flush_confirm"
    /\ \E typed \in ConfirmLines :
         LET r == delete_all_body(store, typed)
         IN  /\ line' = typed
             /\ store' = r.store
             /\ calls' = r.calls
             /\ out' = r.out
    /\ Return
    /\ UNCHANGED <<got, checked, prev>>

-----------------------------------------------------------------------------

Next ==
    \/ connect_to_redis
    \/ main
    \/ retrieve_set_members
    \/ create_new_set_key
    \/ create_new_set_count
    \/ create_new_set_member
    \/ update_set_members_key
    \/ update_set_members_menu
    \/ update_set_members_add
    \/ update_set_members_remove
    \/ delete_set
    \/ delete_all_data

Spec == Init /\ [][Next]_vars

-----------------------------------------------------------------------------
(* Properties *)

Range(seq) == { seq[i] : i \in DOMAIN seq }

DecodeAll(bs) == { Decode(b) : b \in bs }

EncodeAll(ms) == [i \in DOMAIN ms |-> EncodeStr(ms[i])]

\* a query has just reported, and the operation before it was a create-set
\* flow on the same key that issued its sadd
QueryAfterCreate ==
    /\ out.op = "query"
    /\ prev.op = "create"
    /\ prev.msg = "updated"
    /\ out.key = prev.key

\* C1 as stated: a query that follows the create-set flow on K with entered
\* members M lists exactly M and reports cardinality |M|, whatever K held before
C1_Original ==
    QueryAfterCreate =>
        /\ out.listed = Range(prev.entered)
        /\ out.card = Cardinality(Range(prev.entered))

\* C1 amended: the query lists the members K held before the flow together
\* with M, and reports the size of that union; it lists exactly M, with
\* cardinality |M|, when K held nothing outside M before the flow
C1_QueryAfterCreate ==
    QueryAfterCreate =>
        /\ out.msg = "members"
        /\ out.listed = DecodeAll(prev.old) \cup Range(prev.entered)
        /\ out.card = Cardinality(DecodeAll(prev.old) \cup Range(prev.entered))
        /\ DecodeAll(prev.old) \subseteq Range(prev.entered) =>
               /\ out.listed = Range(prev.entered)
               /\ out.card = Cardinality(Range(prev.entered))

C1_Witness ==
    /\ QueryAfterCreate
    /\ prev.old # {}
    /\ ~(DecodeAll(prev.old) \subseteq Range(prev.entered))
    /\ Len(prev.entered) >= 2

KeyActing == {"smembers", "sadd", "srem", "scard", "delete"}

ReadUpdateOps == {"query", "update", "add", "remove", "removeall"}

\* C2 as stated: query, update and delete-set issue a call that acts on a key
\* only after an exists check on that key, and only while the key exists
C2_Original ==
    out.op \in ReadUpdateOps \cup {"delete"} =>
        \A i \in DOMAIN calls :
            calls[i].fn \in KeyActing => calls[i].confirmed /\ calls[i].live

\* C2 amended: query and the update sub-menu actions issue a call that acts on
\* a key only after an exists check of the same operation found that key; the
\* key need not exist any more at a later sub-menu call, and delete-set issues
\* its delete with no exists check at all
C2_ExistsBeforeUse ==
    /\ out.op \in ReadUpdateOps =>
          \A i \in DOMAIN calls :
              /\ calls[i].fn \in KeyActing => calls[i].confirmed
              /\ calls[i].fn = "exists" => calls[i].key = out.key
    /\ out.op = "delete" =>
          \A i \in DOMAIN calls : calls[i].fn = "delete" /\ ~calls[i].confirmed

C2_Witness ==
    /\ out.op = "query"
    /\ Len(calls) = 3
    /\ calls[1].fn = "exists"
    /\ calls[2].fn = "smembers" /\ calls[2].confirmed /\ calls[2].live

NonBlank(s) == \E i \in DOMAIN s : s[i] # " "

KeyFns == KeyActing \cup {"exists"}

\* C3: no store call carries an empty (or blank) key or member
C3_NoEmptyArgument ==
    \A i \in DOMAIN calls :
        calls[i].fn \in KeyFns =>
            /\ NonBlank(calls[i].key)
            /\ \A j \in DOMAIN calls[i].args : NonBlank(Decode(calls[i].args[j]))

C3_Witness ==
    /\ Len(calls) = 2
    /\ calls[1].fn = "sadd"
    /\ Len(calls[1].args) = 3
    /\ line = <<"a", " ">>

\* a query has just reported, and the operation before it was an update whose
\* last report was a "Remove all members" on the same key, which had members
QueryAfterRemoveAll ==
    /\ out.op = "query"
    /\ prev.op = "removeall"
    /\ prev.old # {}
    /\ out.key = prev.key

\* C4: "Remove all members" on a key with members reports cardinality 0, a
\* query that follows reports the set as having no members, and the member
\* sets of the other keys are unchanged
C4_RemoveAll ==
    /\ [](/\ (out.op = "removeall" /\ out.old # {}) => out.card = 0
          /\ QueryAfterRemoveAll =>
                out.msg = "no members" /\ out.listed = {} /\ out.card = 0)
    /\ [][out'.op = "removeall" /\ calls' # <<>> /\ pc = "update_menu" =>
             \A k \in Keys \ {key} : Get(store', k) = Get(store, k)]_vars

\* the sub-menu's "Remove member" has just issued its srem
RemoveReported == out.op = "remove" /\ out.msg # "member empty"

\* C5: removing a member that is not in the set reports "not found" and the
\* cardinality reported is the one before; removing a member that is in the
\* set reports "removed" and the cardinality reported is one less
C5_RemoveMember ==
    RemoveReported =>
        IF EncodeStr(out.entered[1]) \in out.old
        THEN /\ out.msg = "removed"
             /\ out.card = Cardinality(out.old) - 1
             /\ Get(store, out.key) = out.old \ {EncodeStr(out.entered[1])}
        ELSE /\ out.msg = "not found"
             /\ out.card = Cardinality(out.old)
             /\ Get(store, out.key) = out.old

C5_Witness ==
    /\ RemoveReported
    /\ out.msg = "removed"
    /\ out.card = 1

\* the sub-menu's "Add new member" has just issued its sadd
AddReported == out.op = "add" /\ out.msg # "member empty"

\* C6: adding a member that is already in the set reports "already existed"
\* and leaves the set and its cardinality unchanged; adding a member that is
\* not in the set reports "added"
C6_AddMember ==
    AddReported =>
        IF EncodeStr(out.entered[1]) \in out.old
        THEN /\ out.msg = "already existed"
             /\ out.card = Cardinality(out.old)
             /\ Get(store, out.key) = out.old
        ELSE /\ out.msg = "added"
             /\ Get(store, out.key) = out.old \cup {EncodeStr(out.entered[1])}

C6_Witness ==
    /\ AddReported
    /\ out.msg = "already existed"
    /\ out.card = 2

\* C7: delete-set on a key that does not exist reports "not found" and leaves
\* the store unchanged; on a key that exists it reports success and the key
\* does not exist afterwards
C7_DeleteSet ==
    [][(pc = "delete_key" /\ out'.key # NoKey) =>
          IF Get(store, out'.key) = {}
          THEN out'.msg = "not found" /\ store' = store
          ELSE out'.msg = "deleted" /\ exists(store', out'.key) = 0]_vars

C7_Witness ==
    /\ out.op = "delete"
    /\ out.msg = "deleted"
    /\ Cardinality(out.old) = 2
    /\ pc = "menu"

FlushIssued(cs) == \E i \in DOMAIN cs : cs[i].fn = "flushdb"

\* C8 as stated: the flush is issued if and only if the typed confirmation
\* is "y"; any other text cancels with no store call and no change
C8_Original ==
    [][pc = "flush_confirm" =>
          IF line' = <<"y">>
          THEN FlushIssued(calls') /\ \A k \in Keys : Get(store', k) = {}
          ELSE calls' = <<>> /\ store' = store /\ out'.msg = "canceled"]_vars

\* the typed confirmations that are "y" once trimmed and lower-cased
YesLines == { <<"y">>, <<"Y">>, <<" ", "y", " ">> }

\* C8 amended: the flush is issued if and only if the typed confirmation,
\* trimmed and lower-cased, is "y", and then no key remains; any other text
\* cancels with no store call and no change
C8_DeleteAll ==
    [][pc = "flush_confirm" =>
          IF line' \in YesLines
          THEN /\ calls' = <<PlainCall("flushdb")>>
               /\ out'.msg = "flushed"
               /\ \A k \in Keys : Get(store', k) = {}
          ELSE calls' = <<>> /\ store' = store /\ out'.msg = "canceled"]_vars

C8_Witness ==
    /\ out.op = "flush"
    /\ out.msg = "flushed"
    /\ line = <<"Y">>
    /\ calls # <<>>

SmallNumerals == { <<" ", "2", " ">>, <<"0", "4">> }

\* the typed lines that are an integer in 1..max
InRange(max) == { Numeral(n) : n \in 1..max } \cup SmallNumerals

\* C9: a selection that is not an integer in range, typed at the top-level
\* menu or at the update sub-menu, makes get_int read again: nothing is
\* returned or dispatched, no store call is issued; the top-level loop ends
\* only on the selection 6
C9_BadSelection ==
    [][/\ (pc = "menu" /\ line' \notin InRange(6)) \/ (pc = "update_menu" /\ line' \notin InRange(4)) =>
             /\ pc' = pc
             /\ got' = got
             /\ calls' = <<>>
             /\ UNCHANGED <<store, key, out, prev>>
       /\ pc' = "done" => pc = "menu" /\ line' = <<"6">>]_vars

C9_Witness ==
    /\ pc = "update_menu"
    /\ line = <<"x">>
    /\ got.max = 4

\* the create-set flow has issued its sadd
CreateReported == out.op = "create" /\ out.msg = "updated"

\* C10: the create-set flow with N entered members issues one sadd carrying
\* the N members in entry order; the reported count is the number of distinct
\* entered members not in the set before, the reported cardinality the size of
\* the union of the old set and the entered members
C10_CreateBatch ==
    CreateReported =>
        /\ Len(out.entered) = got.value
        /\ out.added = Cardinality(Range(EncodeAll(out.entered)) \ out.old)
        /\ out.card = Cardinality(out.old \cup Range(EncodeAll(out.entered)))
        /\ calls # <<>> =>
              /\ calls[1].fn = "sadd"
              /\ calls[1].key = out.key
              /\ calls[1].args = EncodeAll(out.entered)
              /\ \A i \in DOMAIN calls : i # 1 => calls[i].fn # "sadd"

\* the example of the specification: on an absent key, three entered
\* members of which the third repeats the first
C10_Witness ==
    /\ CreateReported
    /\ out.old = {}
    /\ out.entered = << <<"a">>, <<"b">>, <<"a">> >>
    /\ out.added = 2
    /\ out.card = 2
    /\ calls # <<>>

BlankLines == { <<>>, <<" ">> }

CreatePcs == {"create_key", "create_count", "create_member"}

\* a step of the create-set flow: an empty key or member aborts with no call
CreateStepAborts ==
    pc \in CreatePcs =>
        /\ (pc \in {"create_key", "create_member"} /\ line' \in BlankLines) =>
              (/\ pc' = "menu"
               /\ calls' = <<>>
               /\ store' = store
               /\ out'.msg \in {"key empty", "member empty"})
        /\ (pc' \in CreatePcs => (calls' = <<>> /\ store' = store))

\* C11: in the create-set flow an empty key or an empty member aborts the
\* operation: control returns to the top-level menu, no store call is issued
\* and the store is as it was when the flow was entered, so none of the
\* members collected earlier is added
C11_CreateAbort ==
    [][CreateStepAborts]_vars

C11_Witness ==
    /\ pc = "menu"
    /\ out.op = "create"
    /\ out.msg = "member empty"
    /\ line = <<" ">>
    /\ Len(out.entered) = 2
    /\ \E k \in Keys : Get(store, k) = {}

RoutedOps == {"query", "create", "update", "add", "remove", "removeall", "delete", "flush"}

\* C12 as stated: an operation routed from the top-level menu performs at most
\* one store call between its dispatch and its return to the menu
C12_Original ==
    out.op \in RoutedOps => Len(calls) <= 1

\* C12 amended: delete-set and delete-all-data perform at most one store
\* call; query performs at most three (exists, members, cardinality);
\* create-set performs at most two (add, cardinality), both after the last
\* member is read; update performs one exists call on entry and then, per
\* sub-menu action, at most two calls for an add or a remove and n + 2 calls
\* for a remove-all of n members
C12_CallsPerOperation ==
    /\ out.op \in {"delete", "flush", "update"} => Len(calls) <= 1
    /\ out.op = "query" => Len(calls) <= 3
    /\ out.op = "create" => Len(calls) <= 2 /\ (pc \in CreatePcs => calls = <<>>)
    /\ out.op \in {"add", "remove"} => Len(calls) <= 2
    /\ out.op = "removeall" => Len(calls) <= Cardinality(out.old) + 2
    /\ pc \in {"query_key", "create_key", "update_key", "delete_key", "flush_confirm",
                "update_add", "update_remove"} => calls = <<>>

C12_Witness ==
    /\ out.op = "removeall"
    /\ Len(calls) = 4
    /\ pc = "update_menu"

\* the startup ping has failed
PingFailed == out.op = "connect" /\ out.msg = "ping failed"

\* after a failed ping the process is over: the menu loop was not entered, no
\* line was read, no selection returned, and the ping is the only store call
FailedAtStartup ==
    PingFailed =>
        /\ pc = "failed"
        /\ calls = <<PlainCall("ping")>>
        /\ line = <<>>
        /\ got = NoInt
        /\ store = EmptyStore

\* C13: if the startup ping fails the program reports it and terminates: the
\* menu loop is never entered, no selection is read, the ping is not retried
\* and no other store call is made
C13_PingFailure ==
    /\ []FailedAtStartup
    /\ [][~PingFailed /\ pc # "failed"]_vars

C13_Witness ==
    /\ PingFailed
    /\ pc = "failed"
    /\ Len(calls) = 1

\* the value get_int last returned satisfies the bounds it was called with
WithinBounds ==
    got # NoInt =>
        /\ got.min # NoBound => got.min <= got.value
        /\ got.max # NoBound => got.value <= got.max

\* C14: get_int returns only a value that satisfies every bound it was
\* given; so the dispatcher sees selections 1..6 only, the update sub-menu
\* 1..4 only, and the member count of create-set is at least 1
C14_BoundedInt ==
    /\ WithinBounds
    /\ pc \in {"query_key", "create_key", "update_key", "delete_key", "flush_confirm", "done"} =>
          got.value \in 1..6
    /\ pc \in {"update_add", "update_remove"} => got.value \in 1..4
    /\ pc = "create_member" => count >= 1 /\ count = got.value /\ got.max = NoBound

C14_Witness ==
    /\ pc = "create_member"
    /\ count = 3
    /\ line = <<"3">>

\* the typed lines that are the integer 4
ExitLines == { <<"4">>, <<"0", "4">> }

\* a step of the update operation
UpdateStepFlow ==
    /\ pc = "update_key" =>
          /\ store' = store
          /\ pc' \in {"update_menu", "menu"}
          /\ pc' = "update_menu" => (NonBlank(key') /\ Get(store, key') # {})
          /\ pc' = "menu" => (out'.key = <<>> \/ Get(store, out'.key) = {})
    /\ pc = "update_menu" =>
          /\ pc' \in {"update_menu", "update_add", "update_remove", "menu"}
          /\ pc' = "menu" <=> line' \in ExitLines
          /\ line' = <<"3">> => pc' = "update_menu"
          /\ pc' # "menu" => key' = key
    /\ pc \in {"update_add", "update_remove"} =>
          /\ pc' = "update_menu"
          /\ key' = key
          /\ line' \in BlankLines => (calls' = <<>> /\ store' = store)

\* C15: update enters its sub-menu only if the key is non-empty and exists,
\* and otherwise returns to the top-level menu without a mutation; inside,
\* control returns to the top-level menu only on option 4: options 1-3 and an
\* empty member, which makes no add or remove call, lead back to the sub-menu
C15_UpdateFlow ==
    [][UpdateStepFlow]_vars

C15_Witness ==
    /\ pc = "update_menu"
    /\ out.op = "add"
    /\ out.msg = "member empty"
    /\ line = <<" ">>

\* "Remove all members" has just run
RemoveAllRan == out.op = "removeall" /\ calls # <<>>

\* C16: "Remove all members" fetches the member set once; if it is empty no
\* srem is issued, otherwise exactly one srem per member of the snapshot, and
\* never a delete of the key or a flush; then it reports the cardinality the
\* store returns
C16_RemoveAllCalls ==
    RemoveAllRan =>
        LET n == Cardinality(out.old)
        IN  /\ Len(calls) = n + 2
            /\ calls[1].fn = "smembers"
            /\ calls[n + 2].fn = "scard"
            /\ \A i \in 2..(n + 1) :
                  /\ calls[i].fn = "srem"
                  /\ calls[i].key = out.key
                  /\ Len(calls[i].args) = 1
            /\ { calls[i].args[1] : i \in 2..(n + 1) } = out.old
            /\ out.card = Cardinality(Get(store, out.key))
            /\ n = 0 <=> out.msg = "nothing to remove"

C16_Witness ==
    /\ RemoveAllRan
    /\ Cardinality(out.old) = 2
    /\ calls[2].fn = "srem"
    /\ calls[3].fn = "srem"
    /\ calls[2].args # calls[3].args

\* "Remove all members" on a set that is already empty
C16_EmptyReached ==
    /\ RemoveAllRan
    /\ out.old = {}

\* the keys whose existence or member set a step changes
Changed == { k \in DOMAIN store \cup DOMAIN store' : Get(store', k) # Get(store, k) }

\* a step changes at most the key the operator named, unless it is a
\* confirmed delete-all-data; a query step changes nothing
FrameStep ==
    /\ pc = "query_key" => store' = store
    /\ pc # "flush_confirm" =>
          /\ Changed \subseteq {out'.key}
          /\ Changed # {} =>
                pc \in {"create_member", "update_menu", "update_add", "update_remove", "delete_key"}
          /\ pc \in {"create_member", "update_menu", "update_add", "update_remove"} =>
                Changed \subseteq {key}
    /\ (pc = "flush_confirm" /\ Changed # {}) => line' \in YesLines

\* C17: the query never changes the store, and create-set, the update
\* sub-menu actions and delete-set on key K leave the existence and the member
\* set of every other key unchanged; only a confirmed delete-all-data changes
\* keys the operator did not name
C17_Frame ==
    [][FrameStep]_vars

C17_Witness ==
    /\ out.op = "delete"
    /\ out.msg = "deleted"
    /\ Get(store, out.key) = {}
    /\ \E k \in Keys \ {out.key} : Cardinality(Get(store, k)) = 2

-----------------------------------------------------------------------------

====
